---- MODULE Spec2Model ----
(***************************************************************************)
(* Model of ml_otimizador_janela.py: the window sweep (the __main__ loop), *)
(* preparar_dados, treinar_avaliar and formatar_nome_janela.               *)
(*                                                                         *)
(* Spec    the sweep over the dataset files; what preparar_dados and       *)
(*         treinar_avaliar return to the loop is drawn from their possible *)
(*         outcomes.                                                       *)
(* SpecFn  preparar_dados and treinar_avaliar applied to small concrete    *)
(*         data frames.                                                    *)
(***************************************************************************)
EXTENDS Integers, Sequences, FiniteSets, TLC

VARIABLES
    \* ---- the sweep (__main__)
    features_especificas, \* the keys of the loaded feature request map
    pc,                   \* position of the main loop
    i,                    \* index of the current file in arquivos
    j,                    \* index of the current window in Janelas
    melhor_roc, melhor_acc, melhor_f1, melhor_janela,
    resultados,           \* best-window rows
    todas_metricas,       \* per-window rows
    desfecho,             \* per file: which way its loop iteration ended
    \* ---- one call of preparar_dados followed by one call of treinar_avaliar
    pcf,                  \* position of the call sequence
    arq,                  \* the rows read from the file
    features,             \* the requested feature names
    df, features_validas, \* what preparar_dados returned
    meses_retroativos, min_amostras,
    df_recente,           \* the window slice
    treino, teste,        \* the two halves of train_test_split
    ret                   \* what treinar_avaliar did

varsSweep == <<features_especificas, pc, i, j, melhor_roc, melhor_acc, melhor_f1,
               melhor_janela, resultados, todas_metricas, desfecho>>
varsFn == <<pcf, arq, features, df, features_validas, meses_retroativos,
            min_amostras, df_recente, treino, teste, ret>>
vars == <<varsSweep, varsFn>>

(***************************************************************************)
(* Bounds                                                                  *)
(***************************************************************************)
NJanelas == 3      \* how many of the candidate windows the model sweeps
MaxRoc == 2        \* ROC-AUC levels 0..MaxRoc; level 0 is the score 0.0
MaxLin == 2        \* rows of a data file

(***************************************************************************)
(* Values                                                                  *)
(***************************************************************************)
\* Python's None and a present value.
None == <<>>
Some(x) == <<x>>

\* The candidate windows, in list order.
janelas_meses == <<3, 6, 9, 12, 24, 36>>
\* The slice of them the model sweeps: it holds both label forms.
Janelas == SubSeq(janelas_meses, 3, NJanelas + 2)

\* os.listdir('dados_transformados'), the .csv files.
arquivos == <<"a.csv", "b.csv">>

formatar_nome_janela(meses) ==
    IF meses >= 12 THEN ToString(meses \div 12) \o "a"
                   ELSE ToString(meses) \o "m"

\* The classifier is opaque: accuracy and F1 of a fit are represented by
\* values that differ from window to window and from the initial 0.
AccDe(meses) == 2 * meses
F1De(meses) == 2 * meses + 1

MetricasDe(a) == SelectSeq(todas_metricas, LAMBDA r : r.Dataset = a)
ResultadosDe(a) == SelectSeq(resultados, LAMBDA r : r.Dataset = a)

(***************************************************************************)
(* The sweep                                                               *)
(***************************************************************************)
InitSweep ==
    /\ features_especificas \in SUBSET {arquivos[n] : n \in DOMAIN arquivos}
    /\ pc = "arquivo"
    /\ i = 1
    /\ j = 1
    /\ melhor_roc = 0
    /\ melhor_acc = 0
    /\ melhor_f1 = 0
    /\ melhor_janela = None
    /\ resultados = <<>>
    /\ todas_metricas = <<>>
    /\ desfecho = [n \in DOMAIN arquivos |-> "pendente"]

\* The next file of the for loop.
ProximoArquivo(como) ==
    /\ desfecho' = [desfecho EXCEPT ![i] = como]
    /\ i' = i + 1
    /\ pc' = "arquivo"

\* if arquivo not in features_especificas: warning, continue
SemFeatures ==
    /\ pc = "arquivo"
    /\ i <= Len(arquivos)
    /\ arquivos[i] \notin features_especificas
    /\ ProximoArquivo("sem_features")
    /\ UNCHANGED <<features_especificas, j, melhor_roc, melhor_acc, melhor_f1,
                   melhor_janela, resultados, todas_metricas>>

\* preparar_dados raises (unreadable file, missing column): except, next file
PrepararErro ==
    /\ pc = "arquivo"
    /\ i <= Len(arquivos)
    /\ arquivos[i] \in features_especificas
    /\ ProximoArquivo("erro_preparar")
    /\ UNCHANGED <<features_especificas, j, melhor_roc, melhor_acc, melhor_f1,
                   melhor_janela, resultados, todas_metricas>>

\* Variant of PrepararVazio: the skipped file gets an all-absent best row.
PrepararVazio_ComLinha ==
    /\ pc = "arquivo"
    /\ i <= Len(arquivos)
    /\ arquivos[i] \in features_especificas
    /\ resultados' = Append(resultados,
            [Dataset |-> arquivos[i], Melhor_Janela |-> None, Melhor_ROC_AUC |-> None,
             Melhor_Accuracy |-> None, Melhor_F1_Score |-> None])
    /\ ProximoArquivo("sem_dados")
    /\ UNCHANGED <<features_especificas, j, melhor_roc, melhor_acc, melhor_f1,
                   melhor_janela, todas_metricas>>

\* preparar_dados returns no valid feature or no row: warning, continue
PrepararVazio ==
    /\ pc = "arquivo"
    /\ i <= Len(arquivos)
    /\ arquivos[i] \in features_especificas
    /\ ProximoArquivo("sem_dados")
    /\ UNCHANGED <<features_especificas, j, melhor_roc, melhor_acc, melhor_f1,
                   melhor_janela, resultados, todas_metricas>>

\* Variant of Reiniciar: the tracker keeps what the previous file left.
Reiniciar_Nunca == UNCHANGED <<melhor_roc, melhor_acc, melhor_f1, melhor_janela>>

\* The tracker of the best window starts anew for every prepared file.
Reiniciar ==
    /\ melhor_roc' = 0
    /\ melhor_acc' = 0
    /\ melhor_f1' = 0
    /\ melhor_janela' = None

\* preparar_dados returns rows and features: the window loop starts
PrepararOk ==
    /\ pc = "arquivo"
    /\ i <= Len(arquivos)
    /\ arquivos[i] \in features_especificas
    /\ Reiniciar
    /\ j' = 1
    /\ pc' = "janela"
    /\ UNCHANGED <<features_especificas, i, resultados, todas_metricas, desfecho>>

\* A wider window holds every row of a narrower one: once a window of this
\* file had min_amostras rows, every later one has.
JaSuficiente ==
    \E k \in DOMAIN todas_metricas :
        /\ todas_metricas[k].Dataset = arquivos[i]
        /\ todas_metricas[k].ROC_AUC # None

\* What treinar_avaliar can return for window meses.
Retornos(meses) ==
    (IF JaSuficiente THEN {} ELSE {<<None, None, None>>})
    \cup {<<Some(AccDe(meses)), Some(F1De(meses)), Some(roc)>> : roc \in 0..MaxRoc}

\* Variant of NovasMetricas: a row only when the metrics are present.
NovasMetricas_SoPresentes(acc, f1, roc) ==
    IF roc = None
    THEN todas_metricas
    ELSE Append(todas_metricas,
                [Dataset |-> arquivos[i], Janela |-> formatar_nome_janela(Janelas[j]),
                 ROC_AUC |-> roc, Accuracy |-> acc, F1_Score |-> f1])

\* todas_metricas.append({...}): a row whatever treinar_avaliar returned.
NovasMetricas(acc, f1, roc) ==
    Append(todas_metricas,
           [Dataset |-> arquivos[i], Janela |-> formatar_nome_janela(Janelas[j]),
            ROC_AUC |-> roc, Accuracy |-> acc, F1_Score |-> f1])

\* The body of the window loop after treinar_avaliar returned.
Iteracao(acc, f1, roc) ==
    LET meses == Janelas[j]
        melhora == roc # None /\ roc[1] > melhor_roc
    IN  /\ todas_metricas' = NovasMetricas(acc, f1, roc)
        /\ melhor_roc' = IF melhora THEN roc[1] ELSE melhor_roc
        /\ melhor_acc' = IF melhora THEN acc[1] ELSE melhor_acc
        /\ melhor_f1' = IF melhora THEN f1[1] ELSE melhor_f1
        /\ melhor_janela' = IF melhora THEN Some(formatar_nome_janela(meses))
                                        ELSE melhor_janela
        /\ j' = j + 1

JanelaRetorna ==
    /\ pc = "janela"
    /\ j <= Len(Janelas)
    /\ \E r \in Retornos(Janelas[j]) : Iteracao(r[1], r[2], r[3])
    /\ UNCHANGED <<features_especificas, pc, i, resultados, desfecho>>

\* Variant of JanelaErro: the rows of the failing file are taken back.
JanelaErro_Desfaz ==
    /\ pc = "janela"
    /\ j <= Len(Janelas)
    /\ todas_metricas' = SelectSeq(todas_metricas, LAMBDA r : r.Dataset # arquivos[i])
    /\ ProximoArquivo("erro_avaliar")
    /\ UNCHANGED <<features_especificas, j, melhor_roc, melhor_acc, melhor_f1,
                   melhor_janela, resultados>>

\* treinar_avaliar raises while splitting, fitting or scoring: except, next file
JanelaErro ==
    /\ pc = "janela"
    /\ j <= Len(Janelas)
    /\ ProximoArquivo("erro_avaliar")
    /\ UNCHANGED <<features_especificas, j, melhor_roc, melhor_acc, melhor_f1,
                   melhor_janela, resultados, todas_metricas>>

\* After the last window: the best-window row.
Melhor ==
    /\ pc = "janela"
    /\ j = Len(Janelas) + 1
    /\ resultados' = Append(resultados,
            [Dataset |-> arquivos[i], Melhor_Janela |-> melhor_janela,
             Melhor_ROC_AUC |-> Some(melhor_roc),
             Melhor_Accuracy |-> Some(melhor_acc),
             Melhor_F1_Score |-> Some(melhor_f1)])
    /\ ProximoArquivo("ok")
    /\ UNCHANGED <<features_especificas, j, melhor_roc, melhor_acc, melhor_f1,
                   melhor_janela, todas_metricas>>

\* The loop is over: the two tables are written.
Fim ==
    /\ pc = "arquivo"
    /\ i = Len(arquivos) + 1
    /\ pc' = "fim"
    /\ UNCHANGED <<features_especificas, i, j, melhor_roc, melhor_acc, melhor_f1,
                   melhor_janela, resultados, todas_metricas, desfecho>>

InitFnParado ==
    /\ pcf = "parado"
    /\ arq = <<>>
    /\ features = <<>>
    /\ df = <<>>
    /\ features_validas = <<>>
    /\ meses_retroativos = 0
    /\ min_amostras = 0
    /\ df_recente = <<>>
    /\ treino = <<>>
    /\ teste = <<>>
    /\ ret = [saida |-> "nada", valor |-> <<>>]

Init == InitSweep /\ InitFnParado

Next ==
    \/ SemFeatures /\ UNCHANGED varsFn
    \/ PrepararErro /\ UNCHANGED varsFn
    \/ PrepararVazio /\ UNCHANGED varsFn
    \/ PrepararOk /\ UNCHANGED varsFn
    \/ JanelaRetorna /\ UNCHANGED varsFn
    \/ JanelaErro /\ UNCHANGED varsFn
    \/ Melhor /\ UNCHANGED varsFn
    \/ Fim /\ UNCHANGED varsFn

Spec == Init /\ [][Next]_vars
(***************************************************************************)
(* Data frames                                                             *)
(***************************************************************************)
\* A numeric cell: a finite number, NaN (NaT in a date column) or infinity.
Num(x) == [k |-> "num", v |-> x]
NaN == [k |-> "nan", v |-> 0]
Inf == [k |-> "inf", v |-> 0]
\* A date cell as the file holds it: text of day d, or text that is no date.
Texto(d) == [k |-> "texto", v |-> d]
Lixo == [k |-> "lixo", v |-> 0]

\* The columns of the model's files; "g" is a feature name no file has.
Colunas == {"Date", "Ticker", "Adj Close", "f"}
Linha(t, d, p, x) ==
    [c \in Colunas |-> CASE c = "Date" -> d
                         [] c = "Ticker" -> t
                         [] c = "Adj Close" -> p
                         [] c = "f" -> x]

\* The rows a file can hold: clean rows of two instruments on three days
\* (271 - 30*9 = 1), and rows with one defect.
Tickers == {"A", "B"}
Dias == {0, 1, 271}
LinhasPossiveis ==
    {Linha(t, Texto(d), Num(p), Num(5)) : t \in Tickers, d \in Dias, p \in {1, 2}}
    \cup {Linha(t, Lixo, Num(1), Num(5)) : t \in Tickers}
    \cup {Linha(t, Texto(0), NaN, Num(5)) : t \in Tickers}
    \cup {Linha(t, Texto(0), Num(1), NaN) : t \in Tickers}
    \cup {Linha(t, Texto(0), Num(1), Inf) : t \in Tickers}
ConteudosPossiveis == UNION {[1..n -> LinhasPossiveis] : n \in 0..MaxLin}
Pedidos == {<<"f">>, <<"g">>, <<"f", "g">>}

Range(s) == {s[n] : n \in DOMAIN s}

(***************************************************************************)
(* preparar_dados                                                          *)
(***************************************************************************)
\* pd.to_datetime(..., errors='coerce')
to_datetime(c) == IF c.k = "texto" THEN Num(c.v) ELSE NaN

\* df.dropna(subset=...)
dropna(d, subset) ==
    SelectSeq(d, LAMBDA r : \A c \in Range(subset) : r[c].k # "nan")

\* np.isinf(df[features_validas].values).any()
TemInf(d, fv) == \E n \in DOMAIN d : \E c \in Range(fv) : d[n][c].k = "inf"

\* df[features_validas].replace([np.inf, -np.inf], np.nan)
SemInf(d, fv) ==
    [n \in DOMAIN d |->
        [c \in DOMAIN d[n] |->
            IF c \in Range(fv) /\ d[n][c].k = "inf" THEN NaN ELSE d[n][c]]]

RECURSIVE Soma(_, _, _)
Soma(d, c, n) == IF n = 0 THEN 0 ELSE d[n][c].v + Soma(d, c, n - 1)

\* StandardScaler().fit_transform: (x - mean) / scale, where the scale of a
\* column of zero variance is 1. The finite feature values of the model's
\* files are all equal, so every column has zero variance.
Padronizar(d, fv) ==
    [n \in DOMAIN d |->
        [c \in DOMAIN d[n] |->
            IF c \in Range(fv)
            THEN LET media == Soma(d, c, Len(d)) \div Len(d)
                     escala == CASE \A m \in DOMAIN d : d[m][c].v = media -> 1
                 IN  Num((d[n][c].v - media) \div escala)
            ELSE d[n][c]]]

\* df.groupby('Ticker')['Adj Close'].shift(-1): the price in the next row of
\* the same instrument, NaN when there is none.
TemProxima(d, n) == \E m \in DOMAIN d : m > n /\ d[m]["Ticker"] = d[n]["Ticker"]
Proxima(d, n) ==
    CHOOSE m \in DOMAIN d :
        /\ m > n
        /\ d[m]["Ticker"] = d[n]["Ticker"]
        /\ \A l \in DOMAIN d : (l > n /\ d[l]["Ticker"] = d[n]["Ticker"]) => m <= l
shift(d, n) == IF TemProxima(d, n) THEN d[Proxima(d, n)]["Adj Close"] ELSE NaN

\* (shift(-1) > df['Adj Close']).astype(int): a comparison with NaN is False
Target(d, n) ==
    IF shift(d, n).k = "num" /\ shift(d, n).v > d[n]["Adj Close"].v THEN 1 ELSE 0

ComTarget(d) == [n \in DOMAIN d |-> d[n] @@ ("Target" :> Num(Target(d, n)))]

preparar_dados(arquivo, fs) ==
    LET lido == [n \in DOMAIN arquivo |->
                    [arquivo[n] EXCEPT !["Date"] = to_datetime(@)]]
        fv == SelectSeq(fs, LAMBDA f : f \in Colunas)
        d1 == dropna(lido, fv \o <<"Adj Close">>)
        d2 == IF TemInf(d1, fv) THEN dropna(SemInf(d1, fv), fv) ELSE d1
        d3 == IF Len(d2) > 0 /\ Len(fv) > 0 THEN Padronizar(d2, fv) ELSE d2
    IN  <<ComTarget(d3), fv>>

(***************************************************************************)
(* treinar_avaliar                                                         *)
(***************************************************************************)
\* df['Date'].max(): NaT is skipped, and is the result when no date is left
DataMax(d) ==
    LET ds == {d[n]["Date"].v : n \in {m \in DOMAIN d : d[m]["Date"].k = "num"}}
    IN  IF ds = {} THEN NaN
        ELSE Num(CHOOSE x \in ds : \A y \in ds : y <= x)

\* df['Date'].max() - timedelta(days=30*meses_retroativos)
data_limite(d, meses) ==
    LET max == DataMax(d)
    IN  IF max.k = "num" THEN Num(max.v - 30 * meses) ELSE NaN

\* df[df['Date'] >= data_limite]: a comparison with NaT is False
Recente(d, meses) ==
    LET limite == data_limite(d, meses)
    IN  SelectSeq(d, LAMBDA r : /\ r["Date"].k = "num"
                                /\ limite.k = "num"
                                /\ r["Date"].v >= limite.v)

\* Variant of Insuficiente: exactly min rows are not enough.
Insuficiente_Ate(n, min) == n <= min

\* if len(df_recente) < min_amostras
Insuficiente(n, min) == n < min

\* train_test_split(shuffle=False, test_size=0.2): the last ceil(0.2 n) rows
\* are the test set, the rows before them the training set.
n_test(n) == (2 * n + 9) \div 10
n_train(n) == n - n_test(n)

\* What the classifier and the three scores can do with a non-empty training
\* set: return scores, or raise.
Saidas(meses) ==
    {[saida |-> "return",
      valor |-> <<Some(AccDe(meses)), Some(F1De(meses)), Some(roc)>>] :
        roc \in 0..MaxRoc}
    \cup {[saida |-> "raise", valor |-> <<>>]}

InitFn ==
    /\ pcf = "lido"
    /\ arq \in ConteudosPossiveis
    /\ features \in Pedidos
    /\ df = <<>>
    /\ features_validas = <<>>
    /\ meses_retroativos = 0
    /\ min_amostras = 0
    /\ df_recente = <<>>
    /\ treino = <<>>
    /\ teste = <<>>
    /\ ret = [saida |-> "nada", valor |-> <<>>]

Preparar ==
    /\ pcf = "lido"
    /\ LET r == preparar_dados(arq, features)
       IN  df' = r[1] /\ features_validas' = r[2]
    /\ pcf' = "preparado"
    /\ UNCHANGED <<arq, features, meses_retroativos, min_amostras, df_recente,
                   treino, teste, ret>>

\* One call treinar_avaliar(df, features_validas, meses, min), made as the
\* sweep makes it: with at least one valid feature and one row.
Avaliar ==
    /\ pcf = "preparado"
    /\ Len(features_validas) # 0
    /\ Len(df) # 0
    /\ \E meses \in Range(Janelas), min \in 1..(MaxLin + 1) :
        LET rec == Recente(df, meses)
            n == Len(rec)
        IN  /\ meses_retroativos' = meses
            /\ min_amostras' = min
            /\ df_recente' = rec
            /\ IF Insuficiente(n, min)
               THEN /\ ret' = [saida |-> "return", valor |-> <<None, None, None>>]
                    /\ treino' = <<>>
                    /\ teste' = <<>>
               ELSE IF n_train(n) = 0
               THEN /\ ret' = [saida |-> "raise", valor |-> <<>>]
                    /\ treino' = <<>>
                    /\ teste' = <<>>
               ELSE /\ ret' \in Saidas(meses)
                    /\ treino' = SubSeq(rec, 1, n_train(n))
                    /\ teste' = SubSeq(rec, n_train(n) + 1, n)
    /\ pcf' = "avaliado"
    /\ UNCHANGED <<arq, features, df, features_validas>>

NextFn ==
    \/ Preparar /\ UNCHANGED varsSweep
    \/ Avaliar /\ UNCHANGED varsSweep

\* The sweep stands still while the two functions are applied.
SweepParado ==
    /\ features_especificas = {}
    /\ pc = "arquivo"
    /\ i = 1
    /\ j = 1
    /\ melhor_roc = 0
    /\ melhor_acc = 0
    /\ melhor_f1 = 0
    /\ melhor_janela = None
    /\ resultados = <<>>
    /\ todas_metricas = <<>>
    /\ desfecho = [n \in DOMAIN arquivos |-> "pendente"]

InitDasFuncoes == SweepParado /\ InitFn

SpecFn == InitDasFuncoes /\ [][NextFn]_vars

(***************************************************************************)
(* Properties of the sweep                                                 *)
(***************************************************************************)
Falhou(n) == desfecho[n] \in {"erro_preparar", "erro_avaliar"}
Pulado(n) == desfecho[n] \in {"sem_features", "sem_dados"}

RotulosDe(ms) == [k \in DOMAIN ms |-> ms[k].Janela]
RotulosDasJanelas == [k \in DOMAIN Janelas |-> formatar_nome_janela(Janelas[k])]

Presentes(ms) == {k \in DOMAIN ms : ms[k].ROC_AUC # None}
MaxPresente(ms) ==
    CHOOSE v \in {ms[k].ROC_AUC[1] : k \in Presentes(ms)} :
        \A k \in Presentes(ms) : ms[k].ROC_AUC[1] <= v
PrimeiraComMax(ms) ==
    CHOOSE k \in Presentes(ms) :
        /\ ms[k].ROC_AUC[1] = MaxPresente(ms)
        /\ \A l \in Presentes(ms) : ms[l].ROC_AUC[1] = MaxPresente(ms) => k <= l

\* C1: for every dataset whose window loop completed and that has a present
\* ROC-AUC among its per-window rows, the best-window row carries the maximum
\* of the present ROC-AUCs and the label, accuracy and F1 of the earliest
\* window that attains it.
C1_MelhorEhOMaximo ==
    \A n \in DOMAIN arquivos :
        LET ms == MetricasDe(arquivos[n])
            b == ResultadosDe(arquivos[n])
        IN  (desfecho[n] = "ok" /\ Presentes(ms) # {}) =>
                /\ Len(b) = 1
                /\ b[1].Melhor_ROC_AUC = Some(MaxPresente(ms))
                /\ b[1].Melhor_Janela = Some(ms[PrimeiraComMax(ms)].Janela)
                /\ b[1].Melhor_Accuracy = ms[PrimeiraComMax(ms)].Accuracy
                /\ b[1].Melhor_F1_Score = ms[PrimeiraComMax(ms)].F1_Score

\* C2: when every window of a dataset that passed preparation was
\* insufficient, the best-window row of the dataset is all-absent: label,
\* ROC-AUC, accuracy and F1 are None.
C2_TudoAusente ==
    \A n \in DOMAIN arquivos :
        LET ms == MetricasDe(arquivos[n])
            b == ResultadosDe(arquivos[n])
        IN  (desfecho[n] = "ok" /\ Presentes(ms) = {}) =>
                /\ Len(b) = 1
                /\ b[1].Melhor_Janela = None
                /\ b[1].Melhor_ROC_AUC = None
                /\ b[1].Melhor_Accuracy = None
                /\ b[1].Melhor_F1_Score = None

\* C3 as stated: in the final per-window table every dataset that passed
\* preparation has exactly one row per candidate window.
C3_UmaLinhaPorJanela ==
    pc = "fim" =>
        \A n \in DOMAIN arquivos :
            desfecho[n] \in {"ok", "erro_avaliar"} =>
                RotulosDe(MetricasDe(arquivos[n])) = RotulosDasJanelas

\* C3 amended: a dataset that passed preparation has exactly one row for
\* every window whose evaluation returned, absent metrics for an insufficient
\* window: one row per candidate window when the loop completed, and the rows
\* of the k-1 windows before it when the k-th evaluation raised.
C3_UmaLinhaPorRetorno ==
    \A n \in DOMAIN arquivos :
        LET ms == MetricasDe(arquivos[n])
        IN  /\ desfecho[n] = "ok" => RotulosDe(ms) = RotulosDasJanelas
            /\ desfecho[n] = "erro_avaliar" =>
                   /\ Len(ms) < Len(Janelas)
                   /\ RotulosDe(ms) = SubSeq(RotulosDasJanelas, 1, Len(ms))
            /\ \A k \in DOMAIN ms :
                   /\ ms[k].ROC_AUC = None <=> ms[k].Accuracy = None
                   /\ ms[k].ROC_AUC = None <=> ms[k].F1_Score = None

C3_Testemunha ==
    /\ pc = "fim"
    /\ desfecho[1] = "erro_avaliar"
    /\ Len(MetricasDe(arquivos[1])) = 2
    /\ desfecho[2] = "ok"
    /\ MetricasDe(arquivos[2])[1].ROC_AUC = None

\* What the tracker of lines 114-141 leaves for per-window rows ms.
MelhorLinha(a, ms) ==
    IF \E k \in Presentes(ms) : ms[k].ROC_AUC[1] > 0
    THEN [Dataset |-> a, Melhor_Janela |-> Some(ms[PrimeiraComMax(ms)].Janela),
          Melhor_ROC_AUC |-> Some(MaxPresente(ms)),
          Melhor_Accuracy |-> ms[PrimeiraComMax(ms)].Accuracy,
          Melhor_F1_Score |-> ms[PrimeiraComMax(ms)].F1_Score]
    ELSE [Dataset |-> a, Melhor_Janela |-> None, Melhor_ROC_AUC |-> Some(0),
          Melhor_Accuracy |-> Some(0), Melhor_F1_Score |-> Some(0)]

\* C4: a failure in one dataset does not end the sweep: the loop goes on to
\* the next file and reaches its end only after every file, and the rows of
\* every dataset after the failing one are those its own preparation and
\* evaluations determine, as if the failing dataset were not in the list.
C4_FalhaIsolada ==
    \A n \in DOMAIN arquivos :
        Falhou(n) =>
            /\ i > n
            /\ pc = "fim" => \A m \in DOMAIN arquivos : desfecho[m] # "pendente"
            /\ \A m \in DOMAIN arquivos :
                   LET ms == MetricasDe(arquivos[m])
                       b == ResultadosDe(arquivos[m])
                   IN  m > n =>
                         /\ desfecho[m] = "ok" =>
                                /\ RotulosDe(ms) = RotulosDasJanelas
                                /\ b = <<MelhorLinha(arquivos[m], ms)>>
                         /\ desfecho[m] # "ok" => b = <<>>
                         /\ (Pulado(m) \/ desfecho[m] = "erro_preparar") => ms = <<>>
                         /\ (m > i \/ (m = i /\ pc = "arquivo")) => ms = <<>>

C4_Testemunha ==
    /\ pc = "fim"
    /\ desfecho[1] = "erro_avaliar"
    /\ Len(MetricasDe(arquivos[1])) = 1
    /\ MetricasDe(arquivos[1])[1].ROC_AUC = Some(2)
    /\ desfecho[2] = "ok"
    /\ ResultadosDe(arquivos[2])[1].Melhor_ROC_AUC = Some(1)

\* C9: a file that is skipped, for want of an entry in the feature request
\* map or because preparation left no valid feature or no row, leaves both
\* tables as they were, has no row in either, and the loop goes on to the
\* next file.
C9_PuladoNaoContribui ==
    [][\A n \in DOMAIN arquivos :
          (desfecho[n] = "pendente" /\ desfecho'[n] \in {"sem_features", "sem_dados"}) =>
              /\ n = i
              /\ resultados' = resultados
              /\ todas_metricas' = todas_metricas
              /\ MetricasDe(arquivos[n]) = <<>>
              /\ ResultadosDe(arquivos[n]) = <<>>
              /\ i' = i + 1
              /\ pc' = "arquivo"]_vars

C9_Testemunha ==
    /\ pc = "fim"
    /\ desfecho[1] = "sem_dados"
    /\ desfecho[2] = "ok"
    /\ Len(resultados) = 1
    /\ Len(todas_metricas) = Len(Janelas)

\* C10: when treinar_avaliar raises on the k-th window of a dataset, the k-1
\* rows of its earlier windows stay in todas_metricas, no row is added for
\* window k or a later one, and the dataset never gets a best-window row.
C10_FalhaNaJanela ==
    [][\A n \in DOMAIN arquivos :
          desfecho'[n] = "erro_avaliar" =>
              /\ MetricasDe(arquivos[n])' = MetricasDe(arquivos[n])
              /\ ResultadosDe(arquivos[n])' = <<>>
              /\ desfecho[n] = "pendente" =>
                     /\ n = i
                     /\ Len(MetricasDe(arquivos[n])) = j - 1
                     /\ todas_metricas' = todas_metricas
                     /\ resultados' = resultados]_vars

C10_Testemunha ==
    /\ pc = "fim"
    /\ desfecho[1] = "erro_avaliar"
    /\ Len(MetricasDe(arquivos[1])) = 2
    /\ ResultadosDe(arquivos[1]) = <<>>
    /\ desfecho[2] = "ok"
(***************************************************************************)
(* Properties of preparar_dados and treinar_avaliar                        *)
(***************************************************************************)
\* C5: the prepared data frame holds no row that is the last row of its
\* instrument group, the row that has no next observation.
C5_SemUltimaLinha ==
    pcf \in {"preparado", "avaliado"} =>
        \A n \in DOMAIN df : TemProxima(df, n)

\* C6: when the window has at least min_amostras rows and is split, every
\* test row's date is greater than or equal to every training row's date.
C6_SplitCronologico ==
    (pcf = "avaliado" /\ ~Insuficiente(Len(df_recente), min_amostras)) =>
        \A a \in DOMAIN treino : \A b \in DOMAIN teste :
            teste[b]["Date"].v >= treino[a]["Date"].v

\* C7: no row whose date failed to parse is in the prepared data frame.
C7_SemDataInvalida ==
    pcf \in {"preparado", "avaliado"} =>
        \A n \in DOMAIN df : df[n]["Date"].k # "nan"

\* The rows of df dated on or after the latest date minus 30 days a month.
NaJanela ==
    {n \in DOMAIN df :
        /\ df[n]["Date"].k = "num"
        /\ \A m \in DOMAIN df :
               df[m]["Date"].k = "num" =>
                   df[n]["Date"].v + 30 * meses_retroativos >= df[m]["Date"].v}

\* C8: treinar_avaliar returns three absent metrics, without splitting or
\* training, if and only if the number of rows dated on or after the latest
\* date minus 30*meses days is below min_amostras; with exactly min_amostras
\* rows it goes on to the split and the fit.
C8_InsuficienteSse ==
    pcf = "avaliado" =>
        /\ ret = [saida |-> "return", valor |-> <<None, None, None>>]
               <=> Cardinality(NaJanela) < min_amostras
        /\ Cardinality(NaJanela) < min_amostras => treino = <<>> /\ teste = <<>>
        /\ (Cardinality(NaJanela) >= min_amostras /\ ret.saida = "return") =>
               /\ Len(treino) + Len(teste) = Cardinality(NaJanela)
               /\ ret.valor[3] # None

C8_Testemunha ==
    /\ pcf = "avaliado"
    /\ Cardinality(NaJanela) = min_amostras
    /\ ret.saida = "return"
    /\ ret.valor[3] # None
====
